---- MODULE Spec2Model ----
(***************************************************************************)
(* Model of src/main.py: the store-locator scan.  main() walks the boxes   *)
(* of generate_bounding_boxes(), queries the map search for each box,      *)
(* dedups and filters the markers, enriches each admitted marker from the  *)
(* store endpoint (tier 1) or the dealer endpoint (tier 2), extracts two   *)
(* URLs from the marker's markup and writes one CSV row per marker.        *)
(*                                                                         *)
(* Python dicts are functions from string keys to string values.           *)
(* Coordinates are in quarter degrees (47.0 is 188, 32.75 is 131, the step *)
(* 1.5 is 6): every coordinate of the source is a multiple of 0.25, so the *)
(* float arithmetic of the generator is exact and the integers are a       *)
(* faithful image of it.                                                   *)
(***************************************************************************)
EXTENDS Integers, Sequences, FiniteSets, TLC

VARIABLES
    pc,            \* position of main: start, loop, markers, tier1, tier2,
                   \* extract, done, aborted (sink not opened), crashed
    queried,       \* boxes whose search request has been issued, in order
    outcomes,      \* outcome of each of those requests: ok, fail, nonobject
    taken,         \* markers of the current response already iterated
    seen_ids,      \* main's seen_ids
    wrote_header,  \* main's wrote_header
    csv,           \* rows handed to csv_writer.writerow, in order
    rowIds,        \* history: store_id of the marker behind each data row
    marker,        \* main's loop variable marker (mutated in place)
    original,      \* history: that marker as the search response carried it
    payload,       \* history: the detail payload merged into it, if any
    verdict,       \* history: branch the last marker took in the ledger
    lookups,       \* history: per identifier, the detail requests made
    firstCountry,  \* history: per identifier, the country at first sighting
    sleeps,        \* number of time.sleep(REQUEST_DELAY) calls made
    error,         \* the uncaught exception that ended the run, if any
    firstAllowed,  \* history: the identifiers first sighted with an allowed
                   \* country, in the order of their first sightings
    grid           \* a run of generate_bounding_boxes on ranges of its own:
                   \* the two ranges and the boxes yielded (idle during main)

vars == << pc, queried, outcomes, taken, seen_ids, wrote_header, csv, rowIds,
           marker, original, payload, verdict, lookups, firstCountry, sleeps,
           error, firstAllowed, grid >>

-----------------------------------------------------------------------------
(* Bounds of the model.                                                    *)

\* The scan is cut after this many boxes of the grid.
MaxBoxes == 2

\* A search response carries at most this many markers.
MaxMarkers == 2

\* The ranges the generator is run on start and end within this many
\* quarter degrees of zero.
MaxCoord == 7

-----------------------------------------------------------------------------
(* Configuration constants.                                                *)

LATITUDE_RANGES == << <<188, 120>>, <<120, 108>>, <<131, 131>>, <<154, 154>> >>

LONGITUDE_RANGES == << <<-52, 32>>, <<-80, -48>>, <<-68, -68>>, <<-114, -114>> >>

BOX_SIZE == 6

FIELDS == << "name", "address", "has_enabled_affiliate", "phone", "city",
             "state", "country", "zip", "website_url", "maps_url", "lat",
             "lng" >>

HEADERS == [ name |-> "Nombre de la tienda",
             address |-> "Dirección",
             has_enabled_affiliate |-> "Afiliado",
             phone |-> "Teléfono",
             city |-> "Ciudad",
             state |-> "Provincia",
             country |-> "País",
             zip |-> "Código postal",
             website_url |-> "Página web",
             maps_url |-> "Google Maps",
             lat |-> "Latitud",
             lng |-> "Longitud" ]

\* The list main tests the country against.
ALLOWED_COUNTRIES == {"ES", "PT", "AD"}

-----------------------------------------------------------------------------
(* Dicts.                                                                  *)

\* Python's None, as dict.get returns it for a missing key.
None == "<None>"

EmptyDict == [k \in {} |-> ""]

\* d.get(k, default)
Get(d, k, default) == IF k \in DOMAIN d THEN d[k] ELSE default

\* d[k] = v
SetItem(d, k, v) == [x \in DOMAIN d \cup {k} |-> IF x = k THEN v ELSE d[x]]

\* The mutant of SetDefaultAll: the payload's values win.
SetDefaultAllOverwriting(d, data) ==
    [k \in DOMAIN d \cup DOMAIN data |-> IF k \in DOMAIN data THEN data[k] ELSE d[k]]

\* for k, v in data.items(): d.setdefault(k, v)
SetDefaultAll(d, data) ==
    [k \in DOMAIN d \cup DOMAIN data |-> IF k \in DOMAIN d THEN d[k] ELSE data[k]]

-----------------------------------------------------------------------------
(* The grid.                                                               *)

\* The mutant of LngLoop: the test of the while is strict.
RECURSIVE LngLoopExclusive(_, _, _)
LngLoopExclusive(center_lat, center_lng, end_lng) ==
    IF center_lng < end_lng
    THEN << << center_lat, center_lng,
               center_lat + BOX_SIZE, center_lng + BOX_SIZE,
               center_lat - BOX_SIZE, center_lng - BOX_SIZE >> >>
         \o LngLoopExclusive(center_lat, center_lng + BOX_SIZE, end_lng)
    ELSE << >>

\* The inner while of generate_bounding_boxes: the boxes of one latitude.
RECURSIVE LngLoop(_, _, _)
LngLoop(center_lat, center_lng, end_lng) ==
    IF center_lng <= end_lng
    THEN << << center_lat, center_lng,
               center_lat + BOX_SIZE, center_lng + BOX_SIZE,
               center_lat - BOX_SIZE, center_lng - BOX_SIZE >> >>
         \o LngLoop(center_lat, center_lng + BOX_SIZE, end_lng)
    ELSE << >>

\* The mutant of LatLoop: the test of the while is strict.
RECURSIVE LatLoopExclusive(_, _, _, _)
LatLoopExclusive(center_lat, end_lat, start_lng, end_lng) ==
    IF center_lat > end_lat
    THEN LngLoop(center_lat, start_lng, end_lng)
         \o LatLoopExclusive(center_lat - BOX_SIZE, end_lat, start_lng, end_lng)
    ELSE << >>

\* The outer while: the boxes of one (latitude range, longitude range) pair.
RECURSIVE LatLoop(_, _, _, _)
LatLoop(center_lat, end_lat, start_lng, end_lng) ==
    IF center_lat >= end_lat
    THEN LngLoop(center_lat, start_lng, end_lng)
         \o LatLoop(center_lat - BOX_SIZE, end_lat, start_lng, end_lng)
    ELSE << >>

Min(a, b) == IF a <= b THEN a ELSE b

\* The for over zip(LATITUDE_RANGES, LONGITUDE_RANGES), from pair i on.
RECURSIVE PairLoop(_, _, _)
PairLoop(lats, lngs, i) ==
    IF i > Min(Len(lats), Len(lngs))
    THEN << >>
    ELSE LatLoop(lats[i][1], lats[i][2], lngs[i][1], lngs[i][2])
         \o PairLoop(lats, lngs, i + 1)

generate_bounding_boxes == PairLoop(LATITUDE_RANGES, LONGITUDE_RANGES, 1)

\* The boxes the model scans: the first MaxBoxes boxes of the grid.
Boxes == SubSeq(generate_bounding_boxes, 1, Min(MaxBoxes, Len(generate_bounding_boxes)))

-----------------------------------------------------------------------------
(* Markup.  A markup fragment is the text of a store_html value;           *)
(* BeautifulSoup parses it into its anchors, in document order, each with  *)
(* the selector it matches and its href attribute, if it has one.          *)

\* An anchor's missing attribute, and select_one's None.
NoAttr == "<no attribute>"

NoTag == [selector |-> "<no tag>", href |-> NoAttr]

\* Two anchors under the subtitle pattern, one under the directions pattern.
HtmlBoth ==
    "<span class=store-info-subtitle><a href=m-web>1</a><a href=m-web-2>2</a></span><a class=js-get-directions href=m-map>Go</a>"

\* A directions anchor without href.
HtmlNoHref == "<a class=js-get-directions>Go</a>"

\* One anchor under each pattern.
HtmlStore ==
    "<span class=store-info-subtitle><a href=s-web>1</a></span><a class=js-get-directions href=s-map>Go</a>"

\* An anchor that matches neither pattern, then a directions anchor.
HtmlDealer == "<p><a href=about>About</a></p><a class=js-get-directions href=d-map>Go</a>"

\* BeautifulSoup(html, "html.parser"), as far as the two selectors see it.
BeautifulSoup(html) ==
    CASE html = HtmlBoth ->
            << [selector |-> "span.store-info-subtitle a", href |-> "m-web"],
               [selector |-> "span.store-info-subtitle a", href |-> "m-web-2"],
               [selector |-> "a.js-get-directions", href |-> "m-map"] >>
      [] html = HtmlNoHref ->
            << [selector |-> "a.js-get-directions", href |-> NoAttr] >>
      [] html = HtmlStore ->
            << [selector |-> "span.store-info-subtitle a", href |-> "s-web"],
               [selector |-> "a.js-get-directions", href |-> "s-map"] >>
      [] html = HtmlDealer ->
            << [selector |-> "a", href |-> "about"],
               [selector |-> "a.js-get-directions", href |-> "d-map"] >>
      [] OTHER -> << >>

\* soup.select_one(selector): the first matching anchor, or None.
select_one(soup, selector) ==
    LET hits == {i \in 1..Len(soup) : soup[i].selector = selector}
    IN  IF hits = {} THEN NoTag
        ELSE soup[CHOOSE i \in hits : \A j \in hits : i <= j]

\* tag["href"] raises KeyError when the anchor has no href.
HrefRaises(tag) == tag # NoTag /\ tag.href = NoAttr

\* The mutant of extract_urls_from_html: the last matching anchor is taken.
extract_urls_last_match(html) ==
    LET soup == BeautifulSoup(html)
        last(selector) ==
            LET hits == {i \in 1..Len(soup) : soup[i].selector = selector}
            IN  IF hits = {} THEN NoTag
                ELSE soup[CHOOSE i \in hits : \A j \in hits : i >= j]
        website_tag == last("span.store-info-subtitle a")
        maps_tag == last("a.js-get-directions")
    IN  [ raised |-> HrefRaises(website_tag) \/ HrefRaises(maps_tag),
          website_url |-> IF website_tag # NoTag THEN website_tag.href ELSE "",
          maps_url |-> IF maps_tag # NoTag THEN maps_tag.href ELSE "" ]

\* extract_urls_from_html: raised says that a KeyError left the function,
\* and then the two URLs are not returned.
extract_urls_from_html(html) ==
    LET soup == BeautifulSoup(html)
        website_tag == select_one(soup, "span.store-info-subtitle a")
        maps_tag == select_one(soup, "a.js-get-directions")
    IN  [ raised |-> HrefRaises(website_tag) \/ HrefRaises(maps_tag),
          website_url |-> IF website_tag # NoTag THEN website_tag.href ELSE "",
          maps_url |-> IF maps_tag # NoTag THEN maps_tag.href ELSE "" ]

-----------------------------------------------------------------------------
(* What the three capabilities can answer.                                 *)

Ids == {"1", "2", "3"}

\* What a search marker can look like, its id apart: an allowed country
\* with markup of its own and an affiliate flag, an allowed country with
\* neither, an allowed country with a matching anchor that has no href, and
\* a country outside the allow-list.  Every marker carries a website_url.
MarkerShapes ==
    { [ country |-> "ES", website_url |-> "m-stale-web",
        store_html |-> HtmlBoth, has_enabled_affiliate |-> "yes" ],
      [ country |-> "PT", website_url |-> "m-stale-web" ],
      [ country |-> "AD", website_url |-> "m-stale-web",
        store_html |-> HtmlNoHref ],
      [ country |-> "FR", website_url |-> "m-stale-web",
        store_html |-> HtmlBoth, has_enabled_affiliate |-> "yes" ] }

\* The markers a search response can carry.
SearchMarkers == { SetItem(shape, "id", i) : i \in Ids, shape \in MarkerShapes }

\* The JSON objects the store endpoint can answer with.
StoreData ==
    { [ country |-> "FR", name |-> "store-name",
        has_enabled_affiliate |-> "store-aff", store_html |-> HtmlStore,
        maps_url |-> "s-stale-map" ] }

\* The JSON objects the dealer endpoint can answer with.
DealerData ==
    { [ country |-> "FR", name |-> "dealer-name",
        has_enabled_affiliate |-> "dealer-aff", store_html |-> HtmlDealer,
        maps_url |-> "d-stale-map" ] }

-----------------------------------------------------------------------------
(* The ledger, the record and the sink.                                    *)

\* The mutant of Admit: the identifier is marked seen only once its marker
\* has passed the country filter.
AdmitMarkingAfterFilter(seen, m) ==
    LET store_id == Get(m, "id", None)
    IN  IF store_id \in seen
        THEN [verdict |-> "duplicate", seen |-> seen]
        ELSE IF Get(m, "country", None) \notin ALLOWED_COUNTRIES
             THEN [verdict |-> "filtered", seen |-> seen]
             ELSE [verdict |-> "admitted", seen |-> seen \cup {store_id}]

\* The mutant of Admit: no country filter, a first sighting is admitted.
AdmitIgnoringCountry(seen, m) ==
    LET store_id == Get(m, "id", None)
    IN  IF store_id \in seen
        THEN [verdict |-> "duplicate", seen |-> seen]
        ELSE [verdict |-> "admitted", seen |-> seen \cup {store_id}]

\* The mutant of Admit: no seen-check.
AdmitWithoutSeenCheck(seen, m) ==
    LET store_id == Get(m, "id", None)
    IN  IF Get(m, "country", None) \notin ALLOWED_COUNTRIES
        THEN [verdict |-> "filtered", seen |-> seen \cup {store_id}]
        ELSE [verdict |-> "admitted", seen |-> seen \cup {store_id}]

\* The mutant of Admit: the seen set holds the last identifier only.
AdmitForgetting(seen, m) ==
    LET store_id == Get(m, "id", None)
    IN  IF store_id \in seen
        THEN [verdict |-> "duplicate", seen |-> seen]
        ELSE IF Get(m, "country", None) \notin ALLOWED_COUNTRIES
             THEN [verdict |-> "filtered", seen |-> {store_id}]
             ELSE [verdict |-> "admitted", seen |-> {store_id}]

\* The seen-check, the seen-insert and the country filter of main, for one
\* marker: the branch taken and the seen set afterwards.
Admit(seen, m) ==
    LET store_id == Get(m, "id", None)
    IN  IF store_id \in seen
        THEN [verdict |-> "duplicate", seen |-> seen]
        ELSE IF Get(m, "country", None) \notin ALLOWED_COUNTRIES
             THEN [verdict |-> "filtered", seen |-> seen \cup {store_id}]
             ELSE [verdict |-> "admitted", seen |-> seen \cup {store_id}]

\* The mutant of AfterStore: the dealer endpoint is tried in any case.
AfterStoreAlwaysDealer(ok) == "tier2"

\* Where fetch_store_data goes after the store request: it returns when the
\* request succeeded and tries the dealer endpoint when it raised.
AfterStore(ok) == IF ok THEN "extract" ELSE "tier2"

\* The mutant of WriteBack: the two URLs are filled in only where the
\* marker has none.
WriteBackFillOnly(m, urls) ==
    SetItem(SetDefaultAll(m, [website_url |-> urls.website_url,
                              maps_url |-> urls.maps_url]),
            "has_enabled_affiliate", Get(m, "has_enabled_affiliate", ""))

\* The mutant of WriteBack: the affiliate flag is written back empty.
WriteBackBlankAffiliate(m, urls) ==
    SetItem(SetItem(SetItem(m, "website_url", urls.website_url),
                    "maps_url", urls.maps_url),
            "has_enabled_affiliate", "")

\* The three fields main writes back on the marker after extraction.
WriteBack(m, urls) ==
    SetItem(SetItem(SetItem(m, "website_url", urls.website_url),
                    "maps_url", urls.maps_url),
            "has_enabled_affiliate", Get(m, "has_enabled_affiliate", ""))

\* The row write_csv_header writes.
write_csv_header == [i \in 1..Len(FIELDS) |-> Get(HEADERS, FIELDS[i], FIELDS[i])]

\* The row write_csv_row writes for a marker.
write_csv_row(m) == [i \in 1..Len(FIELDS) |-> Get(m, FIELDS[i], "")]

\* The mutant of Emit: the header goes before every row.
EmitHeaderEveryRow(rows, wrote, m) ==
    rows \o << write_csv_header, write_csv_row(m) >>

\* The rows of the sink after main has written marker m: the header first
\* when it has not been written yet.
Emit(rows, wrote, m) ==
    IF ~wrote
    THEN rows \o << write_csv_header, write_csv_row(m) >>
    ELSE rows \o << write_csv_row(m) >>

\* The mutant of AfterSearch: the exception of a failed search is not caught.
AfterSearchUncaught(outcome) ==
    CASE outcome = "ok" -> "markers"
      [] outcome = "fail" -> "crashed"
      [] outcome = "nonobject" -> "crashed"

\* Where main goes after the search request of a box: to the markers of
\* the answer; back to the for loop (continue) when the request, the status
\* check or the JSON parse raised; out of main when the answer is JSON but
\* no object, since data.get then raises outside the try.
AfterSearch(outcome) ==
    CASE outcome = "ok" -> "markers"
      [] outcome = "fail" -> "loop"
      [] outcome = "nonobject" -> "crashed"

\* The placeholder of the loop variable before the first marker.
NoMarker == [id |-> None]

-----------------------------------------------------------------------------
(* The run.                                                                *)

\* main before its first statement.
MainInit ==
    /\ pc = "start"
    /\ queried = << >>
    /\ outcomes = << >>
    /\ taken = 0
    /\ seen_ids = {}
    /\ wrote_header = FALSE
    /\ csv = << >>
    /\ rowIds = << >>
    /\ marker = NoMarker
    /\ original = NoMarker
    /\ payload = EmptyDict
    /\ verdict = "none"
    /\ lookups = [i \in Ids |-> << >>]
    /\ firstCountry = [i \in Ids |-> "unseen"]
    /\ sleeps = 0
    /\ error = "none"
    /\ firstAllowed = << >>

\* The generator at rest.
NoGrid == [state |-> "idle"]

Init ==
    /\ MainInit
    /\ grid = NoGrid

\* open(OUTPUT_FILE, "w"): the run starts, or ends with the sink unopened.
OpenSink ==
    /\ pc = "start"
    /\ \E opened \in BOOLEAN :
          /\ pc' = IF opened THEN "loop" ELSE "aborted"
          /\ error' = IF opened THEN error ELSE "OSError"
    /\ UNCHANGED << queried, outcomes, taken, seen_ids, wrote_header, csv,
                    rowIds, marker, original, payload, verdict, lookups,
                    firstCountry, sleeps >>
    /\ UNCHANGED << firstAllowed, grid >>

\* The next box of the generator and its search request.  A request that
\* raises (transport, status, JSON) is printed and the loop continues; an
\* answer that is JSON but no object makes data.get raise outside the try.
QueryBox ==
    /\ pc = "loop"
    /\ Len(queried) < Len(Boxes)
    /\ queried' = Append(queried, Boxes[Len(queried) + 1])
    /\ \E outcome \in {"ok", "fail", "nonobject"} :
          /\ outcomes' = Append(outcomes, outcome)
          /\ pc' = AfterSearch(outcome)
          /\ error' = IF outcome = "nonobject" THEN "AttributeError" ELSE error
    /\ taken' = 0
    /\ UNCHANGED << seen_ids, wrote_header, csv, rowIds, marker, original,
                    payload, verdict, lookups, firstCountry, sleeps >>
    /\ UNCHANGED << firstAllowed, grid >>

\* The next marker of the response: seen-check, seen-insert, country filter.
ProcessMarker ==
    /\ pc = "markers"
    /\ taken < MaxMarkers
    /\ \E m \in SearchMarkers :
          LET r == Admit(seen_ids, m)
          IN  /\ marker' = m
              /\ original' = m
              /\ payload' = EmptyDict
              /\ seen_ids' = r.seen
              /\ verdict' = r.verdict
              /\ pc' = IF r.verdict = "admitted" THEN "tier1" ELSE "markers"
              /\ firstCountry' =
                    IF firstCountry[m.id] = "unseen"
                    THEN [firstCountry EXCEPT ![m.id] = m.country]
                    ELSE firstCountry
              /\ firstAllowed' =
                    IF firstCountry[m.id] = "unseen"
                       /\ m.country \in ALLOWED_COUNTRIES
                    THEN Append(firstAllowed, m.id)
                    ELSE firstAllowed
    /\ taken' = taken + 1
    /\ UNCHANGED << queried, outcomes, wrote_header, csv, rowIds, lookups,
                    sleeps, error >>
    /\ UNCHANGED grid

\* fetch_store_data, the store request: merged and done, or on to the dealer.
Tier1 ==
    /\ pc = "tier1"
    /\ \E ok \in BOOLEAN :
          /\ pc' = AfterStore(ok)
          /\ lookups' = [lookups EXCEPT ![marker.id] =
                            Append(@, IF ok THEN "store:ok" ELSE "store:error")]
          /\ IF ok
             THEN \E data \in StoreData :
                     /\ marker' = SetDefaultAll(marker, data)
                     /\ payload' = data
             ELSE UNCHANGED << marker, payload >>
    /\ UNCHANGED << queried, outcomes, taken, seen_ids, wrote_header, csv,
                    rowIds, original, verdict, firstCountry, sleeps, error >>
    /\ UNCHANGED << firstAllowed, grid >>

\* fetch_store_data, the dealer request: merged or not, the function returns.
Tier2 ==
    /\ pc = "tier2"
    /\ pc' = "extract"
    /\ \E ok \in BOOLEAN :
          /\ lookups' = [lookups EXCEPT ![marker.id] =
                            Append(@, IF ok THEN "dealer:ok" ELSE "dealer:error")]
          /\ IF ok
             THEN \E data \in DealerData :
                     /\ marker' = SetDefaultAll(marker, data)
                     /\ payload' = data
             ELSE UNCHANGED << marker, payload >>
    /\ UNCHANGED << queried, outcomes, taken, seen_ids, wrote_header, csv,
                    rowIds, original, verdict, firstCountry, sleeps, error >>
    /\ UNCHANGED << firstAllowed, grid >>

\* Extraction, write-back and the row: a KeyError of the extraction is
\* caught nowhere and ends the run before anything is written.
ExtractAndWrite ==
    /\ pc = "extract"
    /\ LET urls == extract_urls_from_html(Get(marker, "store_html", ""))
           merged == WriteBack(marker, urls)
       IN  IF urls.raised
           THEN /\ pc' = "crashed"
                /\ error' = "KeyError"
                /\ UNCHANGED << marker, wrote_header, csv, rowIds >>
           ELSE /\ pc' = "markers"
                /\ marker' = merged
                /\ csv' = Emit(csv, wrote_header, merged)
                /\ wrote_header' = TRUE
                /\ rowIds' = Append(rowIds, marker.id)
                /\ error' = error
    /\ UNCHANGED << queried, outcomes, taken, seen_ids, original, payload,
                    verdict, lookups, firstCountry, sleeps >>
    /\ UNCHANGED << firstAllowed, grid >>

\* The markers of the response are exhausted: the delay, then the next box.
\* The loop variable is dead from here on, and the model forgets it.
Sleep ==
    /\ pc = "markers"
    /\ pc' = "loop"
    /\ sleeps' = sleeps + 1
    /\ marker' = NoMarker
    /\ original' = NoMarker
    /\ payload' = EmptyDict
    /\ verdict' = "none"
    /\ UNCHANGED << queried, outcomes, taken, seen_ids, wrote_header, csv,
                    rowIds, lookups, firstCountry, error >>
    /\ UNCHANGED << firstAllowed, grid >>

\* The generator is exhausted: the sink is closed and main returns.
Finish ==
    /\ pc = "loop"
    /\ Len(queried) = Len(Boxes)
    /\ pc' = "done"
    /\ UNCHANGED << queried, outcomes, taken, seen_ids, wrote_header, csv,
                    rowIds, marker, original, payload, verdict, lookups,
                    firstCountry, sleeps, error >>
    /\ UNCHANGED << firstAllowed, grid >>

Next ==
    \/ OpenSink
    \/ QueryBox
    \/ ProcessMarker
    \/ Tier1
    \/ Tier2
    \/ ExtractAndWrite
    \/ Sleep
    \/ Finish

Spec == Init /\ [][Next]_vars

-----------------------------------------------------------------------------
(* The generator on ranges of its own.                                     *)

GridCoords == -MaxCoord..MaxCoord

\* One (latitude range, longitude range) pair, each range a (start, end)
\* pair in either order, and no box yielded yet.
InitGrid ==
    /\ MainInit
    /\ grid \in { [state |-> "ranges", lat |-> << a, b >>, lng |-> << c, d >>,
                   boxes |-> << >>] : a, b, c, d \in GridCoords }

\* generate_bounding_boxes run to exhaustion on the pair.
Generate ==
    /\ grid.state = "ranges"
    /\ grid' = [grid EXCEPT !.state = "generated",
                            !.boxes = PairLoop(<< grid.lat >>, << grid.lng >>, 1)]
    /\ UNCHANGED << pc, queried, outcomes, taken, seen_ids, wrote_header, csv,
                    rowIds, marker, original, payload, verdict, lookups,
                    firstCountry, sleeps, error, firstAllowed >>

NextGrid == Generate

SpecGrid == InitGrid /\ [][NextGrid]_vars

-----------------------------------------------------------------------------
(* Vocabulary of the properties.                                           *)

Range(seq) == {seq[i] : i \in 1..Len(seq)}

NoDuplicates(seq) == \A i, j \in 1..Len(seq) : i # j => seq[i] # seq[j]

Column(field) == CHOOSE i \in 1..Len(FIELDS) : FIELDS[i] = field

\* The positions of the data rows in the sink.
DataRows == {i \in 1..Len(csv) : csv[i] # write_csv_header}

\* fetch_store_data is running, or has just returned, for the marker.
InDetail == pc \in {"tier1", "tier2", "extract"}

-----------------------------------------------------------------------------
(* C1..C10.                                                                *)

\* C1: an identifier is processed at most once.  No identifier has two rows
\* in the sink or a second store request, a marker that goes on to the
\* detail lookups carries an identifier with no row and no request so far,
\* and a marker skipped as a duplicate is one whose identifier was seen.
C1_ProcessedAtMostOnce ==
    /\ NoDuplicates(rowIds)
    /\ \A i \in Ids :
          Cardinality({n \in 1..Len(lookups[i]) :
                          lookups[i][n] \in {"store:ok", "store:error"}}) <= 1
    /\ pc = "tier1" => marker.id \notin Range(rowIds) /\ lookups[marker.id] = << >>
    /\ InDetail => marker.id \notin Range(rowIds)
    /\ verdict = "duplicate" => firstCountry[marker.id] # "unseen" /\ pc = "markers"
    /\ Range(rowIds) \subseteq seen_ids

\* C1, the case: a second marker of a written identifier, itself of an
\* allowed country, has been skipped in a later box.
C1_Witness ==
    /\ verdict = "duplicate"
    /\ marker.id \in Range(rowIds)
    /\ marker.country \in ALLOWED_COUNTRIES
    /\ Len(queried) = 2
    /\ taken = 1

\* C2: an identifier is marked seen at its first sighting, whatever its
\* country, and one first sighted with a country outside the allow-list
\* never gets a row or a detail request.
C2_FilteredOnceNeverWritten ==
    \A i \in Ids :
        /\ firstCountry[i] # "unseen" => i \in seen_ids
        /\ firstCountry[i] \notin ALLOWED_COUNTRIES \cup {"unseen"} =>
              i \notin Range(rowIds) /\ lookups[i] = << >>

\* C2, the case: an identifier first sighted in FR comes back with an
\* allowed country and is skipped.
C2_Witness ==
    /\ verdict = "duplicate"
    /\ firstCountry[marker.id] = "FR"
    /\ marker.country \in ALLOWED_COUNTRIES
    /\ marker.id \notin Range(rowIds)

\* C3: every data row of the sink has ES, PT or AD in its country cell, and
\* between the filter and the row the marker's country is the one the
\* search gave it, whatever the detail sources answer.
C3_RowsHaveAllowedCountry ==
    /\ \A i \in DataRows : csv[i][Column("country")] \in ALLOWED_COUNTRIES
    /\ InDetail =>
          /\ Get(marker, "country", None) = Get(original, "country", None)
          /\ Get(marker, "country", None) \in ALLOWED_COUNTRIES

\* C3, the case: a row has been written for a marker into which a payload
\* with another country (FR) had been merged.
C3_Witness ==
    /\ pc = "markers"
    /\ verdict = "admitted"
    /\ payload # EmptyDict
    /\ Get(payload, "country", None) = "FR"
    /\ csv # << >>
    /\ csv[Len(csv)] = write_csv_row(marker)
    /\ csv[Len(csv)][Column("country")] = original.country

\* C4 as stated: from any seen set the run reaches, two admit calls on
\* markers of one identifier not yet seen return True, then False, whatever
\* the two countries.
C4_AdmitTrueThenFalse ==
    \A i \in Ids \ seen_ids : \A s1, s2 \in MarkerShapes :
        LET r1 == Admit(seen_ids, SetItem(s1, "id", i))
            r2 == Admit(r1.seen, SetItem(s2, "id", i))
        IN  r1.verdict = "admitted" /\ r2.verdict # "admitted"

\* C4 as amended: the first call returns True exactly when the first
\* marker's country is in the allow-list, and the second call returns False
\* whatever the two countries; in the run, a marker that went on after the
\* ledger has an allowed country and one skipped as a duplicate has not
\* changed the seen set's verdict on its identifier.
C4_AdmitFirstIffAllowedThenFalse ==
    /\ \A i \in Ids \ seen_ids : \A s1, s2 \in MarkerShapes :
          LET r1 == Admit(seen_ids, SetItem(s1, "id", i))
              r2 == Admit(r1.seen, SetItem(s2, "id", i))
          IN  /\ (r1.verdict = "admitted") = (s1.country \in ALLOWED_COUNTRIES)
              /\ r2.verdict # "admitted"
    /\ verdict = "admitted" => original.country \in ALLOWED_COUNTRIES
    /\ verdict \in {"admitted", "filtered", "duplicate"} =>
          Admit(seen_ids, original).verdict = "duplicate"

\* C4, the case: the first marker of an identifier was admitted and written,
\* and a second one, of a country outside the allow-list, has been rejected.
C4_Witness ==
    /\ verdict = "duplicate"
    /\ marker.id \in Range(rowIds)
    /\ firstCountry[marker.id] \in ALLOWED_COUNTRIES
    /\ marker.country \notin ALLOWED_COUNTRIES

C6_FillOnlyMerge ==
    /\ pc = "extract" =>
          /\ DOMAIN marker = DOMAIN original \cup DOMAIN payload
          /\ \A k \in DOMAIN original : marker[k] = original[k]
          /\ \A k \in DOMAIN payload \ DOMAIN original : marker[k] = payload[k]
    /\ SetDefaultAll([a |-> 1], [a |-> 2, b |-> 3]) = [a |-> 1, b |-> 3]

\* C6, the case: a payload has been merged that disagrees with the marker
\* on a key they share and brings a key the marker lacked.
C6_Witness ==
    /\ pc = "extract"
    /\ \E k \in DOMAIN payload \cap DOMAIN original : payload[k] # original[k]
    /\ DOMAIN payload \ DOMAIN original # {}

\* C7: the sink is empty or starts with the header followed by at least one
\* data row; the header occurs nowhere else, there is one data row per
\* written marker, and wrote_header says that the sink is not empty.
C7_HeaderOnceBeforeFirstRow ==
    /\ wrote_header = (csv # << >>)
    /\ (csv = << >>) = (rowIds = << >>)
    /\ csv # << >> =>
          /\ csv[1] = write_csv_header
          /\ Len(csv) = Len(rowIds) + 1
          /\ DataRows = 2..Len(csv)

\* C7, the case: a finished run that wrote two data rows.
C7_Witness ==
    /\ pc = "done"
    /\ Len(csv) >= 3
    /\ Len(rowIds) = 2

\* C8: the step in which a search request fails changes neither the seen
\* set nor the sink, ends no run and leaves main at the head of the for
\* loop; and the requests issued are, in order and without repetition, the
\* first boxes of the generator.
C8_FailedSearchSkipsBox ==
    /\ [](queried = SubSeq(Boxes, 1, Len(queried)) /\ NoDuplicates(queried)
          /\ Len(outcomes) = Len(queried))
    /\ [][ (Len(outcomes') = Len(outcomes) + 1
             /\ outcomes'[Len(outcomes')] = "fail") =>
           /\ seen_ids' = seen_ids
           /\ csv' = csv
           /\ rowIds' = rowIds
           /\ wrote_header' = wrote_header
           /\ error' = error
           /\ pc' = "loop"
           /\ Len(queried') = Len(queried) + 1 ]_vars

\* C8, the case: the search of the first box failed, the next box has been
\* queried and a row has been written from its answer.
C8_Witness ==
    /\ Len(outcomes) = 2
    /\ outcomes[1] = "fail"
    /\ csv # << >>

\* C9 as stated: whatever markup the marker carries when fetch_store_data
\* has returned, the extraction returns its two URLs and the run goes on to
\* the row: no KeyError ends the run.
C9_ExtractionNeverFails ==
    /\ pc = "extract" =>
          ~extract_urls_from_html(Get(marker, "store_html", "")).raised
    /\ error # "KeyError"

\* C10 as stated: with the sink opened, no exception ends the run, and the
\* run ends only after the search of every box, in generator order.
C10_RunsOverWholeGrid ==
    pc \notin {"start", "aborted"} =>
        /\ pc # "crashed"
        /\ error = "none"
        /\ pc = "done" => queried = Boxes

-----------------------------------------------------------------------------
(* C11..C20.                                                               *)

Abs(x) == IF x >= 0 THEN x ELSE -x

\* floor(|end - start| / step) + 1, with BOX_SIZE as the step.
TilesAlong(range) == Abs(range[2] - range[1]) \div BOX_SIZE + 1

\* The centre latitudes and the centre longitudes of the boxes yielded.
LatPositions == {grid.boxes[n][1] : n \in 1..Len(grid.boxes)}

LngPositions == {grid.boxes[n][2] : n \in 1..Len(grid.boxes)}

\* A range runs the way its axis is iterated: latitude downwards from its
\* start, longitude upwards from its start.
LatForward(range) == range[1] >= range[2]

LngForward(range) == range[1] <= range[2]

\* C11 as stated: whatever the two ranges and the order of their ends, the
\* boxes yielded have floor(|end - start| / step) + 1 centre latitudes and
\* as many centre longitudes as the same formula gives for the longitudes.
C11_TilesPerAxisAnyDirection ==
    grid.state = "generated" =>
        /\ Cardinality(LatPositions) = TilesAlong(grid.lat)
        /\ Cardinality(LngPositions) = TilesAlong(grid.lng)

\* C11 as amended: when the latitude range runs downwards and the longitude
\* range upwards, each axis has floor(|end - start| / step) + 1 positions,
\* one step apart from the start, the last one less than a step short of
\* the end, and there is one box per pair of positions; when a range runs
\* the other way no box is yielded.  The configured grid has 200 boxes.
C11_TilesPerAxisForward ==
    /\ grid.state = "generated" =>
          IF LatForward(grid.lat) /\ LngForward(grid.lng)
          THEN /\ LatPositions =
                     {grid.lat[1] - n * BOX_SIZE : n \in 0..(TilesAlong(grid.lat) - 1)}
               /\ LngPositions =
                     {grid.lng[1] + n * BOX_SIZE : n \in 0..(TilesAlong(grid.lng) - 1)}
               /\ Cardinality(LatPositions) = TilesAlong(grid.lat)
               /\ Cardinality(LngPositions) = TilesAlong(grid.lng)
               /\ Len(grid.boxes) = TilesAlong(grid.lat) * TilesAlong(grid.lng)
               /\ \A x \in LatPositions : x >= grid.lat[2]
               /\ \E x \in LatPositions : x - BOX_SIZE < grid.lat[2]
               /\ \A y \in LngPositions : y <= grid.lng[2]
               /\ \E y \in LngPositions : y + BOX_SIZE > grid.lng[2]
          ELSE grid.boxes = << >>
    /\ Len(generate_bounding_boxes) = 12 * 15 + 3 * 6 + 1 + 1

\* C11, the case: spans that are no multiple of the step, more than one
\* step long, with the boundary tile of each axis yielded.
C11_Witness ==
    /\ grid.state = "generated"
    /\ LatForward(grid.lat) /\ LngForward(grid.lng)
    /\ (grid.lat[1] - grid.lat[2]) % BOX_SIZE # 0
    /\ (grid.lng[2] - grid.lng[1]) % BOX_SIZE # 0
    /\ Cardinality(LatPositions) = 3
    /\ Cardinality(LngPositions) = 2

JustWritten == pc = "markers" /\ verdict = "admitted"

\* The cell of the last row of the sink under a schema column.
LastCell(field) == csv[Len(csv)][Column(field)]

\* The run is between two boxes or over.
BetweenBoxes == pc \in {"loop", "done", "crashed"}

\* C13 as stated: every search request made, failed or not, has been
\* followed by one delay when main is back at the head of the for loop or
\* has returned.
C13_DelayAfterEveryQuery ==
    pc \in {"loop", "done"} => sleeps = Len(queried)

\* C14 as stated: between two boxes and at the end of the run, the
\* identifiers of the rows written are, in order, those of the first
\* sightings with an allowed country.
C14_RowsAreFirstAllowedSightings ==
    BetweenBoxes => rowIds = firstAllowed

\* C15 as stated: the affiliate cell of a row is what the search marker
\* carried, or empty if it carried none.
C15_AffiliateAsSearched ==
    JustWritten =>
        /\ "has_enabled_affiliate" \in DOMAIN marker
        /\ LastCell("has_enabled_affiliate") = Get(original, "has_enabled_affiliate", "")

\* C15 as amended: the written marker has the affiliate field; its cell is
\* what the search marker carried, or else what the merged detail payload
\* supplied, or else empty.
C15_AffiliateAsReconciled ==
    JustWritten =>
        /\ "has_enabled_affiliate" \in DOMAIN marker
        /\ LastCell("has_enabled_affiliate") = marker["has_enabled_affiliate"]
        /\ LastCell("has_enabled_affiliate") =
              Get(original, "has_enabled_affiliate",
                  Get(payload, "has_enabled_affiliate", ""))
        /\ "has_enabled_affiliate" \in DOMAIN original =>
              LastCell("has_enabled_affiliate") = original["has_enabled_affiliate"]
        /\ "has_enabled_affiliate" \notin DOMAIN original \cup DOMAIN payload =>
              LastCell("has_enabled_affiliate") = ""

\* C15, the case: a marker searched without the flag has been written with
\* the flag of the store payload; another row carries the marker's own.
C15_Witness ==
    /\ JustWritten
    /\ "has_enabled_affiliate" \notin DOMAIN original
    /\ LastCell("has_enabled_affiliate") = "store-aff"
    /\ \E n \in DataRows : csv[n][Column("has_enabled_affiliate")] = "yes"

\* The three columns main sets after the detail lookups.
WrittenBack == {"website_url", "maps_url", "has_enabled_affiliate"}

\* C16 as stated: a marker whose two detail requests failed has a row once
\* it has left the extraction, and the row written for such a marker holds
\* the search marker's values in every other column than the three written
\* back, the extracted URLs and the marker's own flag or the empty value.
C16_UnenrichedMarkerWritten ==
    /\ \A i \in Ids :
          lookups[i] = << "store:error", "dealer:error" >> =>
              \/ i \in Range(rowIds)
              \/ pc = "extract" /\ marker.id = i
    /\ (JustWritten /\ lookups[marker.id] = << "store:error", "dealer:error" >>) =>
          LET urls == extract_urls_from_html(Get(original, "store_html", ""))
          IN  /\ \A n \in 1..Len(FIELDS) :
                    FIELDS[n] \notin WrittenBack =>
                        csv[Len(csv)][n] = Get(original, FIELDS[n], "")
              /\ LastCell("website_url") = urls.website_url
              /\ LastCell("maps_url") = urls.maps_url
              /\ LastCell("has_enabled_affiliate") =
                    Get(original, "has_enabled_affiliate", "")

\* C17: every identifier with a row, and the identifier of the marker in
\* the detail lookups, is in the seen set, and no step takes an identifier
\* out of the seen set.
C17_SeenSupersetNeverShrinks ==
    /\ [](/\ Range(rowIds) \subseteq seen_ids
          /\ Range(firstAllowed) \subseteq seen_ids
          /\ (InDetail \/ JustWritten) => marker.id \in seen_ids)
    /\ [][seen_ids \subseteq seen_ids']_vars

\* C17, the case: three identifiers seen, two of them written since the
\* first was seen.
C17_Witness ==
    /\ Cardinality(seen_ids) = 3
    /\ Len(rowIds) = 2
    /\ seen_ids \ Range(rowIds) # {}

\* The requests of a tier among the detail requests of an identifier.
RequestsOf(i, tier) == {n \in 1..Len(lookups[i]) : lookups[i][n] \in tier}

\* C18: only an identifier first sighted with an allowed country has detail
\* requests, at most one per tier; a marker skipped as a duplicate or by
\* the country filter is never in the detail lookups, and only steps of an
\* admitted marker in fetch_store_data issue a request.
C18_LookupsOnlyForAdmitted ==
    /\ [](/\ \A i \in Ids :
                /\ lookups[i] # << >> => firstCountry[i] \in ALLOWED_COUNTRIES
                /\ Cardinality(RequestsOf(i, {"store:ok", "store:error"})) <= 1
                /\ Cardinality(RequestsOf(i, {"dealer:ok", "dealer:error"})) <= 1
          /\ verdict \in {"duplicate", "filtered"} => pc = "markers"
          /\ InDetail => verdict = "admitted")
    /\ [][lookups' # lookups =>
             /\ verdict = "admitted"
             /\ pc \in {"tier1", "tier2"}
             /\ \A i \in Ids \ {marker.id} : lookups'[i] = lookups[i] ]_vars

\* C18, the case: the second marker of the second box has just been
\* skipped by the country filter without a request, in a run whose only
\* requests are the two of one admitted identifier.
C18_Witness ==
    /\ verdict = "filtered"
    /\ lookups[marker.id] = << >>
    /\ taken = 2
    /\ \E j \in Ids : lookups[j] = << "store:error", "dealer:ok" >>
    /\ Cardinality({i \in Ids : lookups[i] # << >>}) = 1
    /\ Len(queried) = 2

\* C19: the two URL cells of a row, and the marker's two fields, are what
\* the extraction returns for the marker's markup, the empty string when no
\* anchor matches, and never a value the search marker or a detail payload
\* had under website_url or maps_url.
C19_UrlsAreExtracted ==
    JustWritten =>
        LET urls == extract_urls_from_html(Get(marker, "store_html", ""))
        IN  /\ LastCell("website_url") = urls.website_url
            /\ LastCell("maps_url") = urls.maps_url
            /\ marker["website_url"] = urls.website_url
            /\ marker["maps_url"] = urls.maps_url
            /\ "website_url" \in DOMAIN original =>
                  LastCell("website_url") # original["website_url"]
            /\ "maps_url" \in DOMAIN payload =>
                  LastCell("maps_url") # payload["maps_url"]
            /\ select_one(BeautifulSoup(Get(marker, "store_html", "")),
                          "span.store-info-subtitle a") = NoTag =>
                  LastCell("website_url") = ""

\* C19, the case: the marker came with a website_url and the dealer payload
\* with a maps_url; the row has the empty string and the extracted link.
C19_Witness ==
    /\ JustWritten
    /\ original["website_url"] = "m-stale-web"
    /\ Get(payload, "maps_url", "") = "d-stale-map"
    /\ LastCell("website_url") = ""
    /\ LastCell("maps_url") = "d-map"

\* C20: the URLs of a row are extracted from the search marker's own
\* store_html when it has one, and otherwise from the store_html of the
\* payload merged by the one detail request that succeeded, if any.
C20_MarkupOfMarkerFirst ==
    /\ JustWritten =>
          LET urls == extract_urls_from_html(
                          Get(original, "store_html", Get(payload, "store_html", "")))
          IN  /\ LastCell("website_url") = urls.website_url
              /\ LastCell("maps_url") = urls.maps_url
              /\ Get(marker, "store_html", "") =
                    Get(original, "store_html", Get(payload, "store_html", ""))
    /\ pc = "extract" =>
          /\ "store_html" \in DOMAIN original =>
                marker["store_html"] = original["store_html"]
          /\ payload = EmptyDict <=>
                lookups[marker.id] = << "store:error", "dealer:error" >>

\* C20, the case: a row from the marker's own markup although the store
\* payload had another, after a row from the dealer payload's markup.
C20_Witness ==
    /\ JustWritten
    /\ Get(original, "store_html", "") = HtmlBoth
    /\ Get(payload, "store_html", "") = HtmlStore
    /\ LastCell("maps_url") = "m-map"
    /\ \E n \in DataRows : csv[n][Column("maps_url")] = "d-map"

====
